---- MODULE Spec2Model ----
(***************************************************************************)
(* PDFcaster bot (src/Bot.py): the per-chat FSM kept by aiogram's          *)
(* MemoryStorage, the temporary files under FILES_DIR, and the message     *)
(* handlers registered on the dispatcher.  dp.start_polling(bot) is called *)
(* with its defaults, so every update is handled in its own asyncio task   *)
(* and no per-chat event isolation is installed: a handler runs atomically *)
(* from one network await (get_file/download_file, answer,                 *)
(* answer_document) to the next, and handlers of any chats, the same chat  *)
(* included, interleave at those awaits.  MemoryStorage never suspends.    *)
(***************************************************************************)
EXTENDS Naturals, Integers, Sequences, FiniteSets, TLC

\* ----------------------------------------------------------------- bounds
NumSessions == 2      \* chats talking to the bot
MaxUuid == 3          \* uuid4 values a chat's files can hold at once
MaxTasks == 2         \* handler tasks suspended at an await at once
MaxPages == 2         \* pages of an uploaded document
MaxFiles == 2         \* files a chat collects for one merge

Sessions == 1..NumSessions
Uuids == 1..MaxUuid
ListIds == 1..(NumSessions + MaxTasks)
NoList == 0           \* key "files" absent from the FSM data
None == "None"        \* FSM state after state.clear(): the Idle session

\* ------------------------------------------------------------ FSM states
ConvertStates ==
  {"pdf2word", "pdf2ppt", "pdf2excel", "pdf2jpg", "word2pdf", "ppt2pdf", "excel2pdf"}

EditStates ==
  {"merge", "split_file", "split_pages", "split_mode", "compress",
   "watermark_file", "watermark_text", "pagenum_file", "pagenum_options"}

SecurityStates ==
  {"unlock_file", "unlock_password", "protect_file", "protect_password"}

FsmStates == ConvertStates \cup EditStates \cup SecurityStates \cup {None}

\* ------------------------------------------------------- message texts
\* (the bot's Russian button labels, transliterated)
TextStart == "/start"
TextBack == "Nazad"                  \* the "back" button
TextFinish == "Gotovo"               \* the "done" button of merge
ModeSeparate == "Otdelnye fayly"     \* split mode: one file per page
ModeSingle == "Odin fayl"            \* split mode: one file for all pages
TextPages == "1-3,5"                 \* any text typed as a page list
TextFree == "free text"              \* any text that is no button label

\* a part of a page list "a-b,n,...": kind "range" (a-b), "single" (n),
\* or "bad" (int() raises on it)
PagePart(k, a, b) == [kind |-> k, a |-> a, b |-> b]

PageLists ==
  { <<PagePart("single", 1, 0)>>,
    <<PagePart("range", 1, 2)>>,
    <<PagePart("single", 2, 0), PagePart("single", 3, 0)>>,
    <<PagePart("single", 1, 0), PagePart("bad", 0, 0)>> }

\* ------------------------------------------- dispatcher (registration order)
Wild == "*"

Hd(n, k, t, s) == [name |-> n, kind |-> k, text |-> t, state |-> s]

Handlers ==
  << Hd("cmd_start", "text", TextStart, Wild),
     Hd("menu_convert", "text", "Konvertirovat", Wild),
     Hd("menu_edit", "text", "Redaktirovat", Wild),
     Hd("menu_security", "text", "Bezopasnost", Wild),
     Hd("go_back", "text", TextBack, Wild),
     Hd("pdf_to_jpg_start", "text", "PDF v JPG", Wild),
     Hd("pdf_to_jpg_file", "document", Wild, "pdf2jpg"),
     Hd("pdf_to_word_start", "text", "PDF v Word", Wild),
     Hd("pdf_to_word_file", "document", Wild, "pdf2word"),
     Hd("pdf_to_ppt_start", "text", "PDF v PowerPoint", Wild),
     Hd("pdf_to_ppt_file", "document", Wild, "pdf2ppt"),
     Hd("pdf_to_excel_start", "text", "PDF v Excel", Wild),
     Hd("pdf_to_excel_file", "document", Wild, "pdf2excel"),
     Hd("word_to_pdf_start", "text", "Word v PDF", Wild),
     Hd("word_to_pdf_file", "document", Wild, "word2pdf"),
     Hd("ppt_to_pdf_start", "text", "PowerPoint v PDF", Wild),
     Hd("ppt_to_pdf_file", "document", Wild, "ppt2pdf"),
     Hd("excel_to_pdf_start", "text", "Excel v PDF", Wild),
     Hd("excel_to_pdf_file", "document", Wild, "excel2pdf"),
     Hd("merge_start", "text", "Obedinit PDF", Wild),
     Hd("merge_collect", "document", Wild, "merge"),
     Hd("merge_finish", "text", TextFinish, "merge"),
     Hd("split_start", "text", "Razdelit PDF", Wild),
     Hd("split_receive", "document", Wild, "split_file"),
     Hd("split_mode_choice", Wild, Wild, "split_mode"),
     Hd("split_do", Wild, Wild, "split_pages"),
     Hd("compress_start_button", "text", "Szhat PDF", Wild),
     Hd("compress_handler", "document", Wild, "compress"),
     Hd("watermark_start", "text", "Vodyanoy znak v PDF", Wild),
     Hd("watermark_receive", "document", Wild, "watermark_file"),
     Hd("watermark_text_handler", Wild, Wild, "watermark_text"),
     Hd("pagenum_start", "text", "Nomera stranic v PDF", Wild),
     Hd("pagenum_receive", "document", Wild, "pagenum_file"),
     Hd("unlock_start", "text", "Otkryt PDF", Wild),
     Hd("unlock_receive", "document", Wild, "unlock_file"),
     Hd("unlock_password", Wild, Wild, "unlock_password"),
     Hd("protect_start", "text", "Zashchita PDF", Wild),
     Hd("protect_receive", "document", Wild, "protect_file"),
     Hd("protect_password", Wild, Wild, "protect_password") >>

\* the state each "<operation>_start" handler sets (merge_start apart)
StartState ==
  [ pdf_to_jpg_start |-> "pdf2jpg", pdf_to_word_start |-> "pdf2word",
    pdf_to_ppt_start |-> "pdf2ppt", pdf_to_excel_start |-> "pdf2excel",
    word_to_pdf_start |-> "word2pdf", ppt_to_pdf_start |-> "ppt2pdf",
    excel_to_pdf_start |-> "excel2pdf", split_start |-> "split_file",
    compress_start_button |-> "compress", watermark_start |-> "watermark_file",
    pagenum_start |-> "pagenum_file", unlock_start |-> "unlock_file",
    protect_start |-> "protect_file" ]

\* handlers that download one file and run the job at once
JobHandlers ==
  {"pdf_to_jpg_file", "pdf_to_word_file", "pdf_to_ppt_file", "pdf_to_excel_file",
   "word_to_pdf_file", "ppt_to_pdf_file", "excel_to_pdf_file",
   "compress_handler", "pagenum_receive"}

\* handlers that download one file and store it for a later step:
\* the data key written and the state set
ReceiveKey ==
  [ split_receive |-> "file_path", watermark_receive |-> "wm_file",
    unlock_receive |-> "unlock_file", protect_receive |-> "protect_file" ]

ReceiveState ==
  [ split_receive |-> "split_mode", watermark_receive |-> "watermark_text",
    unlock_receive |-> "unlock_password", protect_receive |-> "protect_password" ]

\* extension of an uploaded file's name: "pdf", or anything else
Exts == {"pdf", "docx"}

\* an inbound message: message.text is None for a document
TextEvent(t, pl) == [kind |-> "text", text |-> t, parts |-> pl, ext |-> ""]

DocumentEvent(e) == [kind |-> "document", text |-> None, parts |-> <<>>, ext |-> e]

ButtonTexts == {Handlers[i].text : i \in DOMAIN Handlers} \ {Wild}

Events ==
  {TextEvent(t, <<>>) : t \in ButtonTexts \cup {ModeSeparate, ModeSingle, TextFree}}
    \cup {TextEvent(TextPages, pl) : pl \in PageLists}
    \cup {DocumentEvent(e) : e \in Exts}

Matches(h, st, ev) ==
  /\ h.kind \in {Wild, ev.kind}
  /\ h.text \in {Wild, ev.text}
  /\ h.state \in {Wild, st}

\* aiogram runs the first registered handler whose filters pass
FirstMatch(st, ev) ==
  LET hits == {i \in DOMAIN Handlers : Matches(Handlers[i], st, ev)}
  IN  IF hits = {} THEN "unhandled"
      ELSE Handlers[CHOOSE i \in hits : \A j \in hits : i <= j].name

RouteTable == [st \in FsmStates, ev \in Events |-> FirstMatch(st, ev)]

Route(st, ev) == RouteTable[st, ev]

\* ------------------------------------------------------------------ paths
\* os.path.join(FILES_DIR, f"<prefix>_{uuid.uuid4()}_{fname}"): a path is its
\* uuid (n, unique among the live paths of the chat that drew it) and its
\* extension; sess is the chat whose handler built the path
Path(s, n, e) == [sess |-> s, n |-> n, ext |-> e]

NoPath == [sess |-> 0, n |-> 0, ext |-> ""]     \* Python None

\* os.path.splitext(input_path)[0] + ".pdf"
PdfSibling(p) == [p EXCEPT !.ext = "pdf"]

\* ------------------------------------------------------------------ state
VARIABLES
  fsmState,   \* [Sessions -> FsmStates]: MemoryStorage state of each chat
  fsmData,    \* [Sessions -> record]: MemoryStorage data dict of each chat
  lists,      \* [ListIds -> Seq(path)]: the Python list objects held under "files"
  disk,       \* the paths under FILES_DIR that exist and that a handler's
              \* locals or the FSM data still name
  leaked,     \* [Sessions -> BOOLEAN]: some file of the chat exists under
              \* FILES_DIR that no handler and no FSM data names any more
  tasks,      \* handler tasks suspended at an await, with their locals
  last        \* what the latest handler step did (history)

vars == <<fsmState, fsmData, lists, disk, leaked, tasks, last>>

EmptyData ==
  [ files |-> NoList, file_path |-> NoPath, split_mode |-> None,
    wm_file |-> NoPath, unlock_file |-> NoPath, protect_file |-> NoPath ]

\* an outbound instruction: message.answer (kind "message") or
\* message.answer_document (kind "document")
Msg(k, w, pg) == [kind |-> k, what |-> w, page |-> pg]

\* the locals of a suspended handler; fault: the first exception met so far
\* ("download", "backend", "send", "input"); reset (history): a back or
\* /start of the chat was handled since the handler started
NewTask(s, h, pc) ==
  [ sess |-> s, h |-> h, pc |-> pc, path |-> NoPath, out |-> NoPath,
    img |-> NoPath, files |-> NoList, todo |-> <<>>, say |-> "",
    attempt |-> 0, fault |-> "", reset |-> FALSE ]

SeqRange(q) == {q[i] : i \in DOMAIN q}

\* the paths the FSM data of chat s names
DataPaths(data, ls, s) ==
  ({data[s].file_path, data[s].wm_file, data[s].unlock_file, data[s].protect_file}
     \cup (IF data[s].files = NoList THEN {} ELSE SeqRange(ls[data[s].files])))
    \ {NoPath}

\* the paths a handler task names
TaskPaths(ls, t) ==
  ({t.path, t.out, t.img}
     \cup (IF t.files = NoList THEN {} ELSE SeqRange(ls[t.files])))
    \ {NoPath}

\* every path some handler or some chat's data names
Named(data, ls, tks) ==
  UNION {DataPaths(data, ls, c) : c \in Sessions} \cup UNION {TaskPaths(ls, t) : t \in tks}

\* uuids of chat s that a named path carries
UsedNs(s) == {p.n : p \in {q \in Named(fsmData, lists, tasks) : q.sess = s}}

FreeNs(s) == Uuids \ UsedNs(s)

MinOf(S) == CHOOSE n \in S : \A m \in S : n <= m

\* the k-th fresh uuid a handler of chat s draws (k = 1, 2, 3)
Fresh(s, k) ==
  LET free == FreeNs(s)
      n1 == MinOf(free)
      n2 == MinOf(free \ {n1})
      n3 == MinOf(free \ {n1, n2})
  IN  IF k = 1 THEN n1 ELSE IF k = 2 THEN n2 ELSE n3

CanDraw(s, k) == Cardinality(FreeNs(s)) >= k

RefLists(data, tks) ==
  ({data[c].files : c \in Sessions} \cup {t.files : t \in tks}) \ {NoList}

\* a list object nobody refers to any more is garbage
Collect(ls, data, tks) ==
  LET refs == RefLists(data, tks)
  IN  [i \in ListIds |-> IF i \in refs THEN ls[i] ELSE <<>>]

FreshList == MinOf(ListIds \ RefLists(fsmData, tasks))

\* cleanup(paths): os.remove of each path that exists
cleanup(d, paths) == d \ paths

\* the history mark of go_back and cmd_start on the suspended handlers of s
MarkReset(s) == {IF t.sess = s THEN [t EXCEPT !.reset = TRUE] ELSE t : t \in tasks}

\* the record of one step of handler h of chat s.  start, exit: the handler
\* began, ended in this step; raised: an exception left the handler; fault:
\* the first exception met in the handler; kept: how many of the files the
\* handler worked on exist when it ends; late: see reset
Step(s, h, start, exit, msgs, raised, fault, kept, late) ==
  [ sess |-> s, h |-> h, start |-> start, exit |-> exit, msgs |-> msgs,
    raised |-> raised, fault |-> fault, kept |-> kept, late |-> late ]

\* a handler that runs to its end without a real suspension
Whole(s, h, msgs) == Step(s, h, TRUE, TRUE, msgs, FALSE, "", 0, FALSE)

\* a handler that starts and suspends at its first network await
Began(s, h) == Step(s, h, TRUE, FALSE, <<>>, FALSE, "", 0, FALSE)

\* a suspended handler goes on to its next await
Resumed(t, msgs) == Step(t.sess, t.h, FALSE, FALSE, msgs, FALSE, t.fault, 0, t.reset)

\* a suspended handler ends, d being the files that exist then
Ended(t, d, msgs, raised, fault) ==
  Step(t.sess, t.h, FALSE, TRUE, msgs, raised,
       IF t.fault = "" THEN fault ELSE t.fault,
       Cardinality(TaskPaths(lists, t) \cap d), t.reset)

\* the new state after a step: list objects nobody holds are dropped, and a
\* file that exists although nothing names its path any more is leaked
Commit(st, data, ls, d, tks, step) ==
  LET ls2 == Collect(ls, data, tks)
      named == Named(data, ls2, tks)
  IN  /\ fsmState' = st
      /\ fsmData' = data
      /\ lists' = ls2
      /\ disk' = d \cap named
      /\ leaked' = [s \in Sessions |-> leaked[s] \/ \E p \in d \ named : p.sess = s]
      /\ tasks' = tks
      /\ last' = step

Init ==
  /\ fsmState = [s \in Sessions |-> None]
  /\ fsmData = [s \in Sessions |-> EmptyData]
  /\ lists = [i \in ListIds |-> <<>>]
  /\ disk = {}
  /\ leaked = [s \in Sessions |-> FALSE]
  /\ tasks = {}
  /\ last = Step(0, "", FALSE, FALSE, <<>>, FALSE, "", 0, FALSE)

\* state.clear(): MemoryStorage set_state(None) and set_data({})
ClearState(s) == [fsmState EXCEPT ![s] = None]

ClearData(s) == [fsmData EXCEPT ![s] = EmptyData]

\* ------------------------------------------------- navigation handlers
\* the files the FSM data of chat s names that exist (history, for kept)
HeldFiles(s) == Cardinality(DataPaths(fsmData, lists, s) \cap disk)

cmd_start(s, ev, h) ==
  /\ h = "cmd_start"
  /\ Commit(ClearState(s), ClearData(s), lists, disk, MarkReset(s),
            Step(s, h, TRUE, TRUE, <<Msg("message", "main_menu", 0)>>, FALSE, "",
                 HeldFiles(s), FALSE))

go_back(s, ev, h) ==
  /\ h = "go_back"
  /\ Commit(ClearState(s), ClearData(s), lists, disk, MarkReset(s),
            Step(s, h, TRUE, TRUE, <<Msg("message", "main_menu", 0)>>, FALSE, "",
                 HeldFiles(s), FALSE))

\* menu_convert, menu_edit, menu_security: a keyboard is shown, nothing else
menu(s, ev, h) ==
  /\ h \in {"menu_convert", "menu_edit", "menu_security"}
  /\ Commit(fsmState, fsmData, lists, disk, tasks,
            Whole(s, h, <<Msg("message", "menu", 0)>>))

\* pdf_to_jpg_start ... protect_start: state.set_state(<the operation's state>)
operation_start(s, ev, h) ==
  /\ h \in DOMAIN StartState
  /\ Commit([fsmState EXCEPT ![s] = StartState[h]], fsmData, lists, disk, tasks,
            Whole(s, h, <<Msg("message", "prompt", 0)>>))

\* no registered handler matches: aiogram drops the update
unhandled(s, ev, h) ==
  /\ h = "unhandled"
  /\ Commit(fsmState, fsmData, lists, disk, tasks, Whole(s, h, <<>>))

\* raises, were the exception caught by a handler-wide finally that clears
\* the FSM (what the job handlers do after their download)
raises_and_clears(s, h, fault, path) ==
  Commit(ClearState(s), ClearData(s), lists, disk, tasks,
         Step(s, h, TRUE, TRUE, <<>>, TRUE, fault, Cardinality({path} \cap disk), FALSE))

\* an exception before the handler's first await and outside any try:
\* nothing is cleaned, nothing is said; path is the file the handler read
\* from the FSM data
raises(s, h, fault, path) ==
  Commit(fsmState, fsmData, lists, disk, tasks,
         Step(s, h, TRUE, TRUE, <<>>, TRUE, fault, Cardinality({path} \cap disk), FALSE))

\* ------------------------------------------------ one-file job handlers
\* extension of the output path a job handler builds from a fresh uuid
OutExt ==
  [ pdf_to_word_file |-> "docx", pdf_to_ppt_file |-> "pptx",
    pdf_to_excel_file |-> "xlsx", compress_handler |-> "pdf",
    pagenum_receive |-> "pdf" ]

\* handlers whose output is the input path with its extension replaced
SofficeHandlers == {"word_to_pdf_file", "ppt_to_pdf_file", "excel_to_pdf_file"}

\* uuid4 values a job handler draws before its download
NeedUuids(h) ==
  IF h \in SofficeHandlers \cup {"pdf_to_jpg_file"} THEN 1
  ELSE IF h = "pdf_to_ppt_file" THEN 3
  ELSE 2

\* pdf_to_jpg_file ... pagenum_receive, up to "await bot.download_file(...)"
job_receive(s, ev, h) ==
  /\ h \in JobHandlers
  /\ Cardinality(tasks) < MaxTasks
  /\ CanDraw(s, NeedUuids(h))
  /\ LET path == Path(s, Fresh(s, 1), ev.ext)
         out == IF h \in SofficeHandlers THEN PdfSibling(path)
                ELSE IF h = "pdf_to_jpg_file" THEN NoPath
                ELSE Path(s, Fresh(s, 2), OutExt[h])
         img == IF h = "pdf_to_ppt_file" THEN Path(s, Fresh(s, 3), "png") ELSE NoPath
         t == [NewTask(s, h, "download") EXCEPT !.path = path, !.out = out, !.img = img]
     IN  Commit(fsmState, fsmData, lists, disk, tasks \cup {t}, Began(s, h))

\* get_file or download_file raises: the handler has no try around them, so
\* it ends there; a transfer cut half way leaves what was written so far
download_failed(t) ==
  /\ t.pc = "download"
  /\ \E partial \in BOOLEAN :
       LET d == IF partial THEN disk \cup {t.path} ELSE disk
       IN  Commit(fsmState, fsmData, lists, d, tasks \ {t},
                  Ended(t, d, <<>>, TRUE, "download"))

\* what the synchronous code of a handler can do before its next await: the
\* await it stops at, the files it has written, the backend attempt made, the
\* pages left to send, the text of the answer, the exception met
Outcome(pc, wrote, attempt, todo, say, fault) ==
  [ pc |-> pc, wrote |-> wrote, attempt |-> attempt, todo |-> todo,
    say |-> say, fault |-> fault ]

\* the try body raised: the except branch answers; w is what was written
Raised(w) == Outcome("answer_err", w, 0, <<>>, "", "backend")

\* the result was written to f and is to be sent
Wrote(f, attempt) == Outcome("send_doc", {f}, attempt, <<>>, "", "")

\* compress_handler from backend k on: Ghostscript (1), pikepdf (2),
\* rasterizing (3); each "except Exception: pass" falls to the next one
CompressFrom(t, k) ==
  {Wrote(t.out, j) : j \in k..3}
    \cup {Outcome("answer_err", w, 3, <<>>, "", "backend") : w \in {{}, {t.out}}}

PageSeq(n) == [i \in 1..n |-> i]

JobOutcomes(t) ==
  CASE t.h = "pdf_to_jpg_file" ->
         {Outcome("send_page", {t.img}, 0, PageSeq(n), "", "") : n \in 1..MaxPages}
           \cup {Raised(w) : w \in {{}, {t.img}}}
    [] t.h \in {"pdf_to_word_file", "pdf_to_excel_file"} ->
         {Wrote(t.out, 0), Outcome("answer", {}, 0, <<>>, "failed", "")}
           \cup {Raised(w) : w \in {{}, {t.out}}}
    [] t.h = "pdf_to_ppt_file" ->
         {Wrote(t.out, 0), Outcome("answer", {}, 0, <<>>, "failed", "")}
           \cup {Raised(w) : w \in {{}, {t.out}, {t.img}}}
    [] t.h = "word_to_pdf_file" ->
         {Wrote(t.out, j) : j \in 1..2}
           \cup {Outcome("answer", w, 0, <<>>, "failed", "") : w \in {{}, {t.out}}}
    [] t.h \in {"ppt_to_pdf_file", "excel_to_pdf_file"} ->
         {Wrote(t.out, 1)}
           \cup {Outcome("answer", w, 0, <<>>, "failed", "") : w \in {{}, {t.out}}}
    [] t.h = "compress_handler" -> CompressFrom(t, 1)
    [] t.h = "pagenum_receive" ->
         {Wrote(t.out, 0)} \cup {Raised(w) : w \in {{}, {t.out}}}

\* the handler goes on to its next await
Continue(t, o) ==
  [t EXCEPT !.pc = o.pc, !.attempt = o.attempt, !.todo = o.todo, !.say = o.say,
            !.fault = IF t.fault = "" THEN o.fault ELSE t.fault]

\* the download is complete and the job runs up to its first send;
\* pdf_to_jpg_file names its page image only now
job_downloaded(t) ==
  /\ t.pc = "download"
  /\ t.h \in JobHandlers
  /\ t.h = "pdf_to_jpg_file" => CanDraw(t.sess, 1)
  /\ LET u == IF t.h = "pdf_to_jpg_file"
                THEN [t EXCEPT !.img = Path(t.sess, Fresh(t.sess, 1), "png")]
                ELSE t
     IN  \E o \in JobOutcomes(u) :
           Commit(fsmState, fsmData, lists, disk \cup {t.path} \cup o.wrote,
                  (tasks \ {t}) \cup {Continue(u, o)}, Resumed(t, <<>>))

\* the paths the handler's finally block removes
CleanupPaths(t) ==
  CASE t.h \in {"pdf_to_jpg_file", "split_do"} -> {t.path}
    [] t.h = "watermark_text_handler" -> {t.path, t.out, t.img}
    [] t.h = "merge_finish" -> SeqRange(lists[t.files]) \cup {t.out}
    [] OTHER -> {t.path, t.out}

\* a finally block that cleans up and leaves the FSM as it is
FinallyKeepsState(t, msgs, raised, fault) ==
  LET d == cleanup(disk, CleanupPaths(t))
  IN  Commit(fsmState, fsmData, lists, d, tasks \ {t}, Ended(t, d, msgs, raised, fault))

\* finally: cleanup([...]); state.clear()  (merge_finish cleared before its job)
Finally(t, msgs, raised, fault) ==
  LET d == cleanup(disk, CleanupPaths(t))
  IN  Commit(IF t.h = "merge_finish" THEN fsmState ELSE ClearState(t.sess),
             IF t.h = "merge_finish" THEN fsmData ELSE ClearData(t.sess),
             lists, d, tasks \ {t}, Ended(t, d, msgs, raised, fault))

\* "await message.answer_document(FSInputFile(out), ...)" of the result returns
send_doc_ok(t) ==
  /\ t.pc = "send_doc"
  /\ IF t.h = "split_do"
       THEN \* os.remove(out), then the closing message.answer
            Commit(fsmState, fsmData, lists, disk \ {t.out},
                   (tasks \ {t}) \cup {[t EXCEPT !.pc = "answer", !.say = "done"]},
                   Resumed(t, <<Msg("document", "result", 0)>>))
       ELSE Finally(t, <<Msg("document", "result", 0)>>, FALSE, "")

\* ... or raises: the except branch around it decides
send_doc_failed(t) ==
  /\ t.pc = "send_doc"
  /\ LET again == t.h = "compress_handler" /\ t.attempt < 3
         sent == [t EXCEPT !.fault = IF t.fault = "" THEN "send" ELSE t.fault]
     IN  \E o \in (IF again THEN CompressFrom(t, t.attempt + 1)
                   ELSE IF t.h = "word_to_pdf_file" /\ t.attempt = 2
                     THEN {Outcome("answer", {}, 0, <<>>, "failed", "")}
                   ELSE {Outcome("answer_err", {}, t.attempt, <<>>, "", "")}) :
           Commit(fsmState, fsmData, lists,
                  IF again THEN (disk \ {t.out}) \cup o.wrote ELSE disk,
                  (tasks \ {t}) \cup {Continue(sent, o)}, Resumed(sent, <<>>))

\* the path of the page file being sent
PagePath(t) == IF t.h = "pdf_to_jpg_file" THEN t.img ELSE t.out

\* answer_document of one page returns: os.remove of the page file, then the
\* next page is written and sent, or the closing message after the last one
page_sent(t) ==
  /\ t.pc = "send_page"
  /\ \E o \in (IF Len(t.todo) = 1
                 THEN {Outcome("answer", {}, 0, <<>>, "done", "")}
                 ELSE {Outcome("send_page", {PagePath(t)}, 0, Tail(t.todo), "", "")}
                        \cup {Raised(w) : w \in {{}, {PagePath(t)}}}) :
       Commit(fsmState, fsmData, lists, (disk \ {PagePath(t)}) \cup o.wrote,
              (tasks \ {t}) \cup {Continue(t, o)},
              Resumed(t, <<Msg("document", "page", Head(t.todo))>>))

\* answer_document of one page raises: os.remove is skipped
page_failed(t) ==
  /\ t.pc = "send_page"
  /\ LET sent == [t EXCEPT !.fault = IF t.fault = "" THEN "send" ELSE t.fault]
     IN  Commit(fsmState, fsmData, lists, disk,
                (tasks \ {t}) \cup {[sent EXCEPT !.pc = "answer_err", !.todo = <<>>]},
                Resumed(sent, <<>>))

\* a message.answer inside the try returns, or raises into the except branch
answer_done(t) ==
  /\ t.pc = "answer"
  /\ \/ Finally(t, <<Msg("message", t.say, 0)>>, FALSE, "")
     \/ LET sent == [t EXCEPT !.fault = IF t.fault = "" THEN "send" ELSE t.fault]
        IN  Commit(fsmState, fsmData, lists, disk,
                   (tasks \ {t}) \cup {[sent EXCEPT !.pc = "answer_err", !.say = ""]},
                   Resumed(sent, <<>>))

\* the message.answer of the except branch returns or raises; finally runs
answer_err_done(t) ==
  /\ t.pc = "answer_err"
  /\ \/ Finally(t, <<Msg("message", "error", 0)>>, FALSE, "")
     \/ Finally(t, <<>>, TRUE, "send")

\* --------------------------------------- file-then-parameter operations
\* split_receive, watermark_receive, unlock_receive, protect_receive, up to
\* "await bot.download_file(...)"
file_receive(s, ev, h) ==
  /\ h \in DOMAIN ReceiveKey
  /\ Cardinality(tasks) < MaxTasks
  /\ CanDraw(s, 1)
  /\ LET t == [NewTask(s, h, "download") EXCEPT !.path = Path(s, Fresh(s, 1), ev.ext)]
     IN  Commit(fsmState, fsmData, lists, disk, tasks \cup {t}, Began(s, h))

\* ... and after it: state.update_data(<key>=path); state.set_state(<next>)
file_downloaded(t) ==
  /\ t.pc = "download"
  /\ t.h \in DOMAIN ReceiveKey
  /\ LET d == disk \cup {t.path}
     IN  Commit([fsmState EXCEPT ![t.sess] = ReceiveState[t.h]],
                [fsmData EXCEPT ![t.sess][ReceiveKey[t.h]] = t.path],
                lists, d, tasks \ {t},
                Ended(t, d, <<Msg("message", "prompt", 0)>>, FALSE, ""))

\* split_mode_choice: message.text is None for a document (AttributeError on
\* .strip()); the rejection calls split_mode_menu(), a name the module never
\* defines (NameError), so no message goes out
split_mode_choice(s, ev, h) ==
  /\ h = "split_mode_choice"
  /\ IF ev.text \in {ModeSeparate, ModeSingle}
       THEN Commit([fsmState EXCEPT ![s] = "split_pages"],
                   [fsmData EXCEPT ![s].split_mode = ev.text],
                   lists, disk, tasks, Whole(s, h, <<Msg("message", "prompt", 0)>>))
       ELSE raises(s, h, "input", NoPath)

\* the comma-separated parts of message.text
PartsOf(ev) ==
  IF ev.text = TextPages THEN ev.parts ELSE <<PagePart("bad", 0, 0)>>

\* range(a - 1, b - 1): a range that leaves its last page out
RangePagesOpen(a, b) == [i \in 1..(IF b > a THEN b - a ELSE 0) |-> a - 2 + i]

\* range(a - 1, b): the 0-based pages a-1 .. b-1
RangePages(a, b) == [i \in 1..(IF b >= a THEN b - a + 1 ELSE 0) |-> a - 2 + i]

\* the loop of split_do over text.split(','): the 0-based page numbers
RECURSIVE ParsePages(_)
ParsePages(parts) ==
  IF parts = <<>> THEN <<>>
  ELSE LET part == Head(parts)
       IN  (IF part.kind = "range" THEN RangePages(part.a, part.b)
            ELSE <<part.a - 1>>) \o ParsePages(Tail(parts))

\* a check of the first part only
FirstPartWellFormed(parts) == parts = <<>> \/ parts[1].kind # "bad"

\* int() raises on no part: the except branch of the loop is not taken
WellFormed(parts) == \A i \in DOMAIN parts : parts[i].kind # "bad"

\* "if 0 <= p < total", kept in order
RECURSIVE InRange(_, _)
InRange(pages, total) ==
  IF pages = <<>> THEN <<>>
  ELSE (IF 0 <= Head(pages) /\ Head(pages) < total THEN <<Head(pages)>> ELSE <<>>)
         \o InRange(Tail(pages), total)

\* what split_do does from "doc = fitz.open(path)" to its first await, for a
\* document of total pages; todo holds the page captions p + 1
SplitOutcomes(t, mode, pages, total) ==
  LET sel == InRange(pages, total)
  IN  IF mode = ModeSingle
        THEN {Wrote(t.out, 0)} \cup {Raised(w) : w \in {{}, {t.out}}}
      ELSE IF sel = <<>>
        THEN {Outcome("answer", {}, 0, <<>>, "done", "")}
      ELSE {Outcome("send_page", {t.out}, 0, [i \in DOMAIN sel |-> sel[i] + 1], "", "")}
             \cup {Raised(w) : w \in {{}, {t.out}}}

\* a handler whose first await is the "file not found" answer; state.clear()
\* comes after that await
not_found(s, h) ==
  /\ Cardinality(tasks) < MaxTasks
  /\ Commit(fsmState, fsmData, lists, disk, tasks \cup {NewTask(s, h, "notfound")},
            Began(s, h))

split_do(s, ev, h) ==
  /\ h = "split_do"
  /\ LET path == fsmData[s].file_path
         mode == IF fsmData[s].split_mode = None THEN ModeSeparate
                 ELSE fsmData[s].split_mode
     IN  IF path = NoPath \/ path \notin disk
           THEN not_found(s, h)
         ELSE IF ev.kind = "document"
           THEN raises(s, h, "input", path)
         ELSE IF ~WellFormed(PartsOf(ev))
           THEN Commit(fsmState, fsmData, lists, disk, tasks,
                       Whole(s, h, <<Msg("message", "rejected", 0)>>))
         ELSE \/ raises(s, h, "backend", path)   \* fitz.open(path), outside the try
              \/ /\ Cardinality(tasks) < MaxTasks
                 /\ CanDraw(s, 1)
                 /\ LET t == [NewTask(s, h, "") EXCEPT
                                !.path = path, !.out = Path(s, Fresh(s, 1), "pdf")]
                    IN  \E total \in 1..MaxPages :
                        \E o \in SplitOutcomes(t, mode, ParsePages(PartsOf(ev)), total) :
                          Commit(fsmState, fsmData, lists, disk \cup o.wrote,
                                 tasks \cup {Continue(t, o)}, Began(s, h))

\* the "file not found" answer returns and state.clear() runs, or it raises
notfound_done(t) ==
  /\ t.pc = "notfound"
  /\ \/ Commit(ClearState(t.sess), ClearData(t.sess), lists, disk, tasks \ {t},
               Ended(t, disk, <<Msg("message", "not_found", 0)>>, FALSE, ""))
     \/ Commit(fsmState, fsmData, lists, disk, tasks \ {t},
               Ended(t, disk, <<>>, TRUE, "send"))

\* watermark_text_handler up to its first await: the stamp page (wm_temp, kept
\* in img) is written, then the stamped copy (out)
watermark_text_handler(s, ev, h) ==
  /\ h = "watermark_text_handler"
  /\ LET path == fsmData[s].wm_file
     IN  IF path = NoPath \/ path \notin disk
           THEN not_found(s, h)
         ELSE IF ev.kind = "document"
           THEN raises(s, h, "input", path)
         ELSE /\ Cardinality(tasks) < MaxTasks
              /\ CanDraw(s, 2)
              /\ LET t == [NewTask(s, h, "") EXCEPT
                             !.path = path, !.out = Path(s, Fresh(s, 1), "pdf"),
                             !.img = Path(s, Fresh(s, 2), "pdf")]
                 IN  \E o \in {Outcome("send_doc", {t.img, t.out}, 0, <<>>, "", "")}
                                \cup {Raised(w) : w \in {{}, {t.img}, {t.img, t.out}}} :
                       Commit(fsmState, fsmData, lists, disk \cup o.wrote,
                              tasks \cup {Continue(t, o)}, Began(s, h))

\* the data key unlock_password and protect_password read their file from
PasswordKey == [unlock_password |-> "unlock_file", protect_password |-> "protect_file"]

\* unlock_password, protect_password up to their first await:
\* "pwd = message.text.strip()" stands before the try
password_job(s, ev, h) ==
  /\ h \in DOMAIN PasswordKey
  /\ IF ev.kind = "document"
       THEN raises(s, h, "input", fsmData[s][PasswordKey[h]])
       ELSE /\ Cardinality(tasks) < MaxTasks
            /\ CanDraw(s, 1)
            /\ LET t == [NewTask(s, h, "") EXCEPT
                           !.path = fsmData[s][PasswordKey[h]],
                           !.out = Path(s, Fresh(s, 1), "pdf")]
               IN  \E o \in (IF t.path \in disk THEN {Wrote(t.out, 0)} ELSE {})
                              \cup {Raised(w) : w \in {{}, {t.out}}} :
                     Commit(fsmState, fsmData, lists, disk \cup o.wrote,
                            tasks \cup {Continue(t, o)}, Began(s, h))

\* ------------------------------------------------------------------ merge
\* state.set_state(EditStates.merge); state.update_data(files=[])
merge_start(s, ev, h) ==
  /\ h = "merge_start"
  /\ Commit([fsmState EXCEPT ![s] = "merge"],
            [fsmData EXCEPT ![s].files = FreshList],
            [lists EXCEPT ![FreshList] = <<>>], disk, tasks,
            Whole(s, h, <<Msg("message", "prompt", 0)>>))

\* data.get("files", []): get_data returns a shallow copy of the dict, so the
\* handler holds the stored list object itself, or a new list if the key is gone
FilesOf(s) == IF fsmData[s].files = NoList THEN FreshList ELSE fsmData[s].files

\* merge_collect up to "await bot.download_file(...)"
merge_collect(s, ev, h) ==
  /\ h = "merge_collect"
  /\ Len(lists[FilesOf(s)]) < MaxFiles
  /\ Cardinality(tasks) < MaxTasks
  /\ CanDraw(s, 1)
  /\ LET t == [NewTask(s, h, "download") EXCEPT
                 !.path = Path(s, Fresh(s, 1), ev.ext), !.files = FilesOf(s)]
     IN  Commit(fsmState, fsmData, lists, disk, tasks \cup {t}, Began(s, h))

\* the same step for a handler that had read a copy of the list when it began
\* and that the other handlers of the chat have not seen grow: it stores its
\* copy and the paths appended meanwhile are lost
merge_collect_lost_update(t) ==
  /\ t.pc = "download"
  /\ t.h = "merge_collect"
  /\ LET d == disk \cup {t.path}
     IN  Commit(fsmState, [fsmData EXCEPT ![t.sess].files = t.files],
                [lists EXCEPT ![t.files] = <<t.path>>], d, tasks \ {t},
                Step(t.sess, t.h, FALSE, TRUE, <<Msg("message", "added", 0)>>, FALSE,
                     t.fault, Cardinality({t.path} \cap d), t.reset))

\* ... and after it: files.append(path); state.update_data(files=files)
merge_collect_downloaded(t) ==
  /\ t.pc = "download"
  /\ t.h = "merge_collect"
  /\ LET d == disk \cup {t.path}
     IN  Commit(fsmState, [fsmData EXCEPT ![t.sess].files = t.files],
                [lists EXCEPT ![t.files] = Append(@, t.path)], d, tasks \ {t},
                Step(t.sess, t.h, FALSE, TRUE, <<Msg("message", "added", 0)>>, FALSE,
                     t.fault, Cardinality({t.path} \cap d), t.reset))

\* merge_finish up to its first await: the state is cleared before the count
\* of the files is looked at
merge_finish(s, ev, h) ==
  /\ h = "merge_finish"
  /\ LET files == lists[FilesOf(s)]
     IN  IF Len(files) < 2
           THEN Commit(ClearState(s), ClearData(s), lists, disk, tasks,
                       Step(s, h, TRUE, TRUE, <<Msg("message", "rejected", 0)>>, FALSE, "",
                            Cardinality(SeqRange(files) \cap disk), FALSE))
           ELSE /\ Cardinality(tasks) < MaxTasks
                /\ CanDraw(s, 1)
                /\ LET t == [NewTask(s, h, "") EXCEPT
                               !.files = FilesOf(s), !.out = Path(s, Fresh(s, 1), "pdf")]
                   IN  \E o \in {Wrote(t.out, 0)} \cup {Raised(w) : w \in {{}, {t.out}}} :
                         Commit(ClearState(s), ClearData(s), lists, disk \cup o.wrote,
                                tasks \cup {Continue(t, o)}, Began(s, h))

\* ---------------------------------------------------------- the whole bot
Next ==
  \/ \E s \in Sessions, ev \in Events :
      LET h == Route(fsmState[s], ev)
      IN
        \/ cmd_start(s, ev, h)
        \/ go_back(s, ev, h)
        \/ menu(s, ev, h)
        \/ operation_start(s, ev, h)
        \/ unhandled(s, ev, h)
        \/ job_receive(s, ev, h)
        \/ file_receive(s, ev, h)
        \/ split_mode_choice(s, ev, h)
        \/ split_do(s, ev, h)
        \/ watermark_text_handler(s, ev, h)
        \/ password_job(s, ev, h)
        \/ merge_start(s, ev, h)
        \/ merge_collect(s, ev, h)
        \/ merge_finish(s, ev, h)
  \/ \E t \in tasks : download_failed(t)
  \/ \E t \in tasks : job_downloaded(t)
  \/ \E t \in tasks : file_downloaded(t)
  \/ \E t \in tasks : merge_collect_downloaded(t)
  \/ \E t \in tasks : notfound_done(t)
  \/ \E t \in tasks : send_doc_ok(t)
  \/ \E t \in tasks : send_doc_failed(t)
  \/ \E t \in tasks : page_sent(t)
  \/ \E t \in tasks : page_failed(t)
  \/ \E t \in tasks : answer_done(t)
  \/ \E t \in tasks : answer_err_done(t)

Spec == Init /\ [][Next]_vars

\* ------------------------------------------------ conversations checked
\* The full bot is Spec.  Each specification below is the bot restricted to
\* the updates of one kind of conversation, the handlers those updates reach
\* and the chats that send them.
Texts(ts) == {TextEvent(t, <<>>) : t \in ts}

OneChat == {1}

\* one chat merging PDFs
MergeEvents ==
  Texts({TextStart, TextBack, "Obedinit PDF", TextFinish, TextFree})
    \cup {DocumentEvent("pdf")}

NextMerge ==
  \/ \E s \in OneChat, ev \in MergeEvents :
      LET h == Route(fsmState[s], ev)
      IN
        \/ cmd_start(s, ev, h)
        \/ go_back(s, ev, h)
        \/ unhandled(s, ev, h)
        \/ merge_start(s, ev, h)
        \/ merge_collect(s, ev, h)
        \/ merge_finish(s, ev, h)
  \/ \E t \in tasks : download_failed(t)
  \/ \E t \in tasks : merge_collect_downloaded(t)
  \/ \E t \in tasks : send_doc_ok(t)
  \/ \E t \in tasks : send_doc_failed(t)
  \/ \E t \in tasks : answer_err_done(t)

SpecMerge == Init /\ [][NextMerge]_vars

\* one chat splitting a PDF
SplitEvents ==
  Texts({TextStart, TextBack, "Razdelit PDF", ModeSeparate, ModeSingle, TextFree})
    \cup {TextEvent(TextPages, pl) : pl \in PageLists}
    \cup {DocumentEvent("pdf")}

NextSplit ==
  \/ \E s \in OneChat, ev \in SplitEvents :
      LET h == Route(fsmState[s], ev)
      IN
        \/ cmd_start(s, ev, h)
        \/ go_back(s, ev, h)
        \/ unhandled(s, ev, h)
        \/ operation_start(s, ev, h)
        \/ file_receive(s, ev, h)
        \/ split_mode_choice(s, ev, h)
        \/ split_do(s, ev, h)
  \/ \E t \in tasks : download_failed(t)
  \/ \E t \in tasks : file_downloaded(t)
  \/ \E t \in tasks : send_doc_ok(t)
  \/ \E t \in tasks : send_doc_failed(t)
  \/ \E t \in tasks : page_sent(t)
  \/ \E t \in tasks : page_failed(t)
  \/ \E t \in tasks : answer_done(t)
  \/ \E t \in tasks : answer_err_done(t)

SpecSplit == Init /\ [][NextSplit]_vars

\* one chat using the operations that take a file and then a text:
\* watermark, unlock, protect
ParamEvents ==
  Texts({TextStart, TextBack, "Vodyanoy znak v PDF", "Otkryt PDF", "Zashchita PDF",
         TextFree})
    \cup {DocumentEvent("pdf")}

NextParam ==
  \/ \E s \in OneChat, ev \in ParamEvents :
      LET h == Route(fsmState[s], ev)
      IN
        \/ cmd_start(s, ev, h)
        \/ go_back(s, ev, h)
        \/ unhandled(s, ev, h)
        \/ operation_start(s, ev, h)
        \/ file_receive(s, ev, h)
        \/ watermark_text_handler(s, ev, h)
        \/ password_job(s, ev, h)
  \/ \E t \in tasks : download_failed(t)
  \/ \E t \in tasks : file_downloaded(t)
  \/ \E t \in tasks : send_doc_ok(t)
  \/ \E t \in tasks : send_doc_failed(t)
  \/ \E t \in tasks : answer_err_done(t)

SpecParam == Init /\ [][NextParam]_vars

\* one chat converting PDFs to images, or numbering pages
JpgEvents ==
  Texts({TextStart, TextBack, "PDF v JPG", "Nomera stranic v PDF", TextFree})
    \cup {DocumentEvent(e) : e \in Exts}

NextJpg ==
  \/ \E s \in OneChat, ev \in JpgEvents :
      LET h == Route(fsmState[s], ev)
      IN
        \/ cmd_start(s, ev, h)
        \/ go_back(s, ev, h)
        \/ unhandled(s, ev, h)
        \/ operation_start(s, ev, h)
        \/ job_receive(s, ev, h)
  \/ \E t \in tasks : download_failed(t)
  \/ \E t \in tasks : job_downloaded(t)
  \/ \E t \in tasks : send_doc_ok(t)
  \/ \E t \in tasks : send_doc_failed(t)
  \/ \E t \in tasks : page_sent(t)
  \/ \E t \in tasks : page_failed(t)
  \/ \E t \in tasks : answer_done(t)
  \/ \E t \in tasks : answer_err_done(t)

SpecJpg == Init /\ [][NextJpg]_vars

\* one chat converting PDFs to Word, PowerPoint, Excel
PdfToEvents ==
  Texts({TextStart, TextBack, "PDF v Word", "PDF v PowerPoint", "PDF v Excel", TextFree})
    \cup {DocumentEvent("pdf")}

NextPdfTo ==
  \/ \E s \in OneChat, ev \in PdfToEvents :
      LET h == Route(fsmState[s], ev)
      IN
        \/ cmd_start(s, ev, h)
        \/ go_back(s, ev, h)
        \/ unhandled(s, ev, h)
        \/ operation_start(s, ev, h)
        \/ job_receive(s, ev, h)
  \/ \E t \in tasks : download_failed(t)
  \/ \E t \in tasks : job_downloaded(t)
  \/ \E t \in tasks : send_doc_ok(t)
  \/ \E t \in tasks : send_doc_failed(t)
  \/ \E t \in tasks : answer_done(t)
  \/ \E t \in tasks : answer_err_done(t)

SpecPdfTo == Init /\ [][NextPdfTo]_vars

\* one chat converting office documents to PDF
OfficeEvents ==
  Texts({TextStart, TextBack, "Word v PDF", "PowerPoint v PDF", "Excel v PDF", TextFree})
    \cup {DocumentEvent(e) : e \in Exts}

NextOffice ==
  \/ \E s \in OneChat, ev \in OfficeEvents :
      LET h == Route(fsmState[s], ev)
      IN
        \/ cmd_start(s, ev, h)
        \/ go_back(s, ev, h)
        \/ unhandled(s, ev, h)
        \/ operation_start(s, ev, h)
        \/ job_receive(s, ev, h)
  \/ \E t \in tasks : download_failed(t)
  \/ \E t \in tasks : job_downloaded(t)
  \/ \E t \in tasks : send_doc_ok(t)
  \/ \E t \in tasks : send_doc_failed(t)
  \/ \E t \in tasks : answer_done(t)
  \/ \E t \in tasks : answer_err_done(t)

SpecOffice == Init /\ [][NextOffice]_vars

\* every chat compressing PDFs: the jobs of different chats side by side
PoolEvents ==
  Texts({TextBack, "Szhat PDF"}) \cup {DocumentEvent("pdf")}

NextPool ==
  \/ \E s \in Sessions, ev \in PoolEvents :
      LET h == Route(fsmState[s], ev)
      IN
        \/ go_back(s, ev, h)
        \/ unhandled(s, ev, h)
        \/ operation_start(s, ev, h)
        \/ job_receive(s, ev, h)
  \/ \E t \in tasks : download_failed(t)
  \/ \E t \in tasks : job_downloaded(t)
  \/ \E t \in tasks : send_doc_ok(t)
  \/ \E t \in tasks : send_doc_failed(t)
  \/ \E t \in tasks : answer_err_done(t)

SpecPool == Init /\ [][NextPool]_vars

\* ------------------------------------------------------------ properties
\* the handlers of chat s that are suspended at an await
Suspended(s) == {t \in tasks : t.sess = s}

\* the handlers that run a conversion job
JobLike == JobHandlers \cup
  {"merge_finish", "split_do", "watermark_text_handler", "unlock_password",
   "protect_password"}

\* the jobs past their download: the backend has worked or is about to
Running == {t \in tasks : t.h \in JobLike /\ t.pc # "download"}

\* C1: whenever the FSM state of a chat is Idle (cleared) and none of its
\* handlers is suspended, no temporary file of the chat exists on disk and
\* the chat's FSM data names no file.
C1_IdleHoldsNoFile ==
  \A s \in Sessions :
    (fsmState[s] = None /\ Suspended(s) = {}) =>
      /\ ~leaked[s]
      /\ {p \in disk : p.sess = s} = {}
      /\ DataPaths(fsmData, lists, s) = {}

\* C2: a step of go_back or cmd_start leaves the chat Idle, and every file
\* the chat's FSM data named before the step is gone after it: none of them
\* is still on disk, under a name or leaked.
C2_BackDeletesHeldFiles ==
  [][\A s \in Sessions :
       (last'.start /\ last'.h \in {"go_back", "cmd_start"} /\ last'.sess = s) =>
         /\ fsmState'[s] = None
         /\ DataPaths(fsmData, lists, s) \cap disk' = {}
         /\ leaked'[s] => leaked[s]]_vars

\* C3: a handler that ends after its backend raised (the opening of the input
\* document included) leaves none of the files it worked on and leaves the
\* chat Idle.
C3_BackendRaiseCleansUp ==
  (last.exit /\ last.fault = "backend") =>
    /\ last.kept = 0
    /\ fsmState[last.sess] = None

\* C4: merge_finish with fewer than 2 collected files leaves the chat in the
\* merge state with its list of files and the files themselves as they were;
\* with 2 or more files the merge job is started.
C4_FinishNeedsTwoFiles ==
  [][\A s \in Sessions :
       (last'.start /\ last'.h = "merge_finish" /\ last'.sess = s) =>
         IF Len(lists[FilesOf(s)]) < 2
           THEN /\ fsmState'[s] = "merge"
                /\ fsmData'[s].files = fsmData[s].files
                /\ SeqRange(lists[FilesOf(s)]) \subseteq disk'
           ELSE \E t \in tasks' : t.sess = s /\ t.h = "merge_finish"]_vars

\* the "maximum concurrent jobs" option of the specified configuration
\* surface, at its least admissible value; src/Bot.py reads no such option
MaxConcurrentJobs == 1

\* C5: over all chats, the jobs that are past their download and have not
\* ended are never more than the configured limit.
C5_RunningJobsWithinLimit == Cardinality(Running) <= MaxConcurrentJobs

\* C6: no job handler of a chat starts while another job of the same chat is
\* between its download and its final cleanup.
C6_OneJobPerSession ==
  [][(last'.start /\ last'.h \in JobLike) =>
       ~\E t \in Running : t.sess = last'.sess]_vars

\* C7: a handler that was suspended when go_back or cmd_start reset its chat
\* never moves the chat out of Idle when it goes on.
C7_LateHandlerKeepsIdle ==
  [][\A s \in Sessions :
       (last'.late /\ last'.sess = s /\ fsmState[s] = None) =>
         fsmState'[s] = None]_vars

\* C8: a job that was suspended when go_back or cmd_start reset its chat sends
\* nothing to the user from then on, and when it ends none of its files is
\* left (a job ended by its failed download is the case of C9).
C8_OrphanedResultDiscarded ==
  (last.late /\ last.h \in JobLike) =>
    /\ last.msgs = <<>>
    /\ (last.exit /\ last.fault # "download") => last.kept = 0

\* C9: a handler that ends because its download failed leaves no file, not
\* even a partly written one.
C9_FailedDownloadLeavesNoFile ==
  (last.exit /\ last.fault = "download") => last.kept = 0

\* C10: no handler of a chat starts while another handler of the same chat is
\* suspended at an await.
C10_SessionEventsSequential ==
  [][last'.start => Suspended(last'.sess) = {}]_vars

\* ---------------------------------------------------------- the event loop
\* subprocess.run is a blocking call made inside a coroutine: from the call
\* to its return the one thread of the event loop is inside it, and no other
\* handler of any chat runs.  The specification below shows that call as a
\* place of its own (pc "backend") for compress_handler's Ghostscript run.

\* some handler is inside subprocess.run
Blocked == \E t \in tasks : t.pc = "backend"

\* the download is complete, the binary was found and subprocess.run(cmd) is
\* entered
backend_called(t) ==
  /\ t.pc = "download"
  /\ t.h \in SofficeHandlers \cup {"compress_handler"}
  /\ Commit(fsmState, fsmData, lists, disk \cup {t.path},
            (tasks \ {t}) \cup {[t EXCEPT !.pc = "backend"]}, Resumed(t, <<>>))

\* the external process ends and the handler runs on to its first send
backend_returned(t) ==
  /\ t.pc = "backend"
  /\ \E o \in JobOutcomes(t) :
       Commit(fsmState, fsmData, lists, disk \cup o.wrote,
              (tasks \ {t}) \cup {Continue(t, o)}, Resumed(t, <<>>))

\* an update of chat s that needs no backend: the back button, a menu
\* label, an update no handler takes
light_event(s) ==
  /\ ~Blocked
  /\ \E ev \in PoolEvents :
       LET h == Route(fsmState[s], ev)
       IN  \/ go_back(s, ev, h)
           \/ unhandled(s, ev, h)
           \/ operation_start(s, ev, h)

\* a document of chat s reaches compress_handler
job_event(s) ==
  /\ ~Blocked
  /\ \E ev \in PoolEvents : job_receive(s, ev, Route(fsmState[s], ev))

\* a suspended handler is resumed by the event loop
resumed(t) ==
  /\ ~Blocked
  /\ \/ download_failed(t)
     \/ backend_called(t)
     \/ job_downloaded(t)
     \/ send_doc_ok(t)
     \/ send_doc_failed(t)
     \/ answer_err_done(t)

NextLoop ==
  \/ \E s \in Sessions : light_event(s)
  \/ \E s \in Sessions : job_event(s)
  \/ \E t \in tasks : resumed(t)
  \/ \E t \in tasks : backend_returned(t)

SpecLoop == Init /\ [][NextLoop]_vars

\* C11: while a handler of one chat is inside the external backend process,
\* an update of another chat that needs no backend can be handled.
C11_OtherChatsServedDuringBackend ==
  \A t \in tasks :
    t.pc = "backend" => \E s \in Sessions \ {t.sess} : ENABLED light_event(s)

\* the kind of document the prompt of an operation asks for: a PDF, or an
\* office document for the conversions to PDF
AcceptedExt(h) == IF h \in SofficeHandlers THEN "docx" ELSE "pdf"

\* C12: no job handler starts to download a document of a type its operation
\* does not accept: such a document is turned away with no temporary file.
C12_WrongTypeNotDownloaded ==
  [][\A t \in tasks' \ tasks :
       (last'.start /\ t.h = last'.h /\ t.h \in JobHandlers /\ t.pc = "download") =>
         t.path.ext = AcceptedExt(t.h)]_vars

\* ------------------------------------------------- one update, one handler
\* the step of the handler that update ev of chat s is routed to, up to the
\* handler's first network await
Handle(s, ev) ==
  LET h == Route(fsmState[s], ev)
  IN  \/ cmd_start(s, ev, h)
      \/ go_back(s, ev, h)
      \/ menu(s, ev, h)
      \/ operation_start(s, ev, h)
      \/ unhandled(s, ev, h)
      \/ job_receive(s, ev, h)
      \/ file_receive(s, ev, h)
      \/ split_mode_choice(s, ev, h)
      \/ split_do(s, ev, h)
      \/ watermark_text_handler(s, ev, h)
      \/ password_job(s, ev, h)
      \/ merge_start(s, ev, h)
      \/ merge_collect(s, ev, h)
      \/ merge_finish(s, ev, h)

\* the states in which a text is awaited for a stored file
ParamStates ==
  {"watermark_text", "unlock_password", "protect_password", "split_mode", "split_pages"}

\* the states in which a file is awaited
FileStates == {StartState[h] : h \in DOMAIN StartState} \cup {"merge"}

\* an update of a type the state does not await: a document where a text is
\* awaited, a text that is no button label where a file is awaited
Unexpected(st, ev) ==
  \/ ev.kind = "document" /\ st \in ParamStates
  \/ ev = TextEvent(TextFree, <<>>) /\ st \in FileStates

\* chat s is left as it was: its FSM state, its data, the list objects, the
\* files and the suspended handlers
Untouched(s) ==
  /\ fsmState'[s] = fsmState[s]
  /\ fsmData'[s] = fsmData[s]
  /\ lists' = lists
  /\ disk' = disk
  /\ leaked' = leaked
  /\ tasks' = tasks

\* C13: the handling of an update of an unexpected type leaves the chat's FSM
\* state, its stored data and its files unchanged.
C13_UnexpectedEventChangesNothing ==
  [][\A s \in Sessions, ev \in Events :
       (Unexpected(fsmState[s], ev) /\ Handle(s, ev)) => Untouched(s)]_vars

\* one chat using every operation that takes a file and then a text (split,
\* watermark, unlock, protect), up to the text that is awaited
StoredFileEvents ==
  Texts({TextBack, "Razdelit PDF", "Vodyanoy znak v PDF", "Otkryt PDF", "Zashchita PDF",
         ModeSingle, TextFree})
    \cup {DocumentEvent("pdf")}

NextStoredFile ==
  \/ \E s \in OneChat, ev \in StoredFileEvents :
      LET h == Route(fsmState[s], ev)
      IN
        \/ go_back(s, ev, h)
        \/ unhandled(s, ev, h)
        \/ operation_start(s, ev, h)
        \/ file_receive(s, ev, h)
        \/ split_mode_choice(s, ev, h)
        \/ split_do(s, ev, h)
        \/ watermark_text_handler(s, ev, h)
        \/ password_job(s, ev, h)
  \/ \E t \in tasks : download_failed(t)
  \/ \E t \in tasks : file_downloaded(t)
  \/ \E t \in tasks : send_doc_ok(t)
  \/ \E t \in tasks : send_doc_failed(t)
  \/ \E t \in tasks : answer_err_done(t)

SpecStoredFile == Init /\ [][NextStoredFile]_vars

\* C13 (reached): a document has just been handled in unlock_password while
\* the stored file exists, and the chat is still in unlock_password.
C13_DocumentInPasswordState ==
  /\ last.h = "unlock_password"
  /\ last.start /\ last.exit /\ last.fault = "input"
  /\ fsmState[1] = "unlock_password"
  /\ fsmData[1].unlock_file \in disk

\* an update the state turns away: one of an unexpected type, or, in
\* split_mode, a text that is neither of the two modes
Rejected(st, ev) ==
  \/ Unexpected(st, ev)
  \/ st = "split_mode" /\ ev.kind = "text" /\ ev.text \in {TextFree, TextPages}

\* C14: the handling of an update that the state turns away sends at least
\* one message to the user.
C14_RejectionIsAnswered ==
  [][\A s \in Sessions, ev \in Events :
       (Rejected(fsmState[s], ev) /\ Handle(s, ev)) => last'.msgs # <<>>]_vars

\* the handler that takes the text awaited in a state
ParamHandler ==
  [ watermark_text |-> "watermark_text_handler", unlock_password |-> "unlock_password",
    protect_password |-> "protect_password", split_pages |-> "split_do" ]

\* C15: where a text is awaited for a stored file, every text other than the
\* back button and /start is handled by the handler of the pending operation.
C15_TextIsTheParameter ==
  [][\A s \in Sessions, ev \in Events :
       ( /\ fsmState[s] \in DOMAIN ParamHandler
         /\ ev.kind = "text"
         /\ ev.text \notin {TextBack, TextStart}
         /\ Handle(s, ev) ) => last'.h = ParamHandler[fsmState[s]]]_vars

\* C16: in an Idle chat, a text that selects no registered operation creates
\* no file, leaves the chat Idle, and is answered with a message.
C16_UnknownSelectionAnswered ==
  [][\A s \in Sessions, ev \in Events :
       ( /\ fsmState[s] = None
         /\ ev.kind = "text"
         /\ Route(None, ev) = "unhandled"
         /\ Handle(s, ev) ) =>
           /\ fsmState'[s] = None
           /\ disk' = disk /\ leaked' = leaked /\ tasks' = tasks
           /\ last'.msgs # <<>>]_vars

\* ------------------------------------------------- deletions that fail
\* os.remove can raise (a file still open elsewhere, a permission lost);
\* stuck is the set of files whose removal raises.

\* cleanup(paths) with removals that fail: "except Exception: pass" goes on
\* to the next path
cleanup_failing(d, paths, stuck) == d \ (paths \ stuck)

\* "for f in [...]: if os.path.exists(f): os.remove(f)" with no try around
\* it: the first removal that raises ends the loop
RECURSIVE RemoveInOrder(_, _, _)
RemoveInOrder(d, order, stuck) ==
  IF order = <<>> THEN d
  ELSE IF Head(order) \in d \cap stuck THEN d
  ELSE RemoveInOrder(d \ {Head(order)}, Tail(order), stuck)

\* what the await before the finally block sent
FinalMsgs(t) ==
  IF t.pc = "send_doc" THEN <<Msg("document", "result", 0)>>
  ELSE IF t.pc = "answer" THEN <<Msg("message", t.say, 0)>>
  ELSE <<Msg("message", "error", 0)>>

\* the last await of a handler returns and, in its finally block, the removal
\* of the files in stuck raises.  watermark_text_handler removes its files
\* itself: the exception leaves the handler before state.clear().  The other
\* handlers call cleanup, which swallows it, and clear the state.
finally_remove_fails(t, stuck) ==
  /\ t.pc \in {"send_doc", "answer", "answer_err"}
  /\ ~(t.h = "split_do" /\ t.pc = "send_doc")
  /\ stuck # {}
  /\ stuck \subseteq CleanupPaths(t) \cap disk
  /\ IF t.h = "watermark_text_handler"
       THEN LET d == RemoveInOrder(disk, <<t.path, t.out, t.img>>, stuck)
            IN  Commit(fsmState, fsmData, lists, d, tasks \ {t},
                       Ended(t, d, FinalMsgs(t), TRUE, "remove"))
       ELSE LET d == cleanup_failing(disk, CleanupPaths(t), stuck)
            IN  Commit(IF t.h = "merge_finish" THEN fsmState ELSE ClearState(t.sess),
                       IF t.h = "merge_finish" THEN fsmData ELSE ClearData(t.sess),
                       lists, d, tasks \ {t}, Ended(t, d, FinalMsgs(t), FALSE, "remove"))

\* one chat adding a watermark or removing a password, with deletions that fail
CleanupEvents ==
  Texts({TextBack, "Vodyanoy znak v PDF", "Otkryt PDF", TextFree})
    \cup {DocumentEvent("pdf")}

NextCleanup ==
  \/ \E s \in OneChat, ev \in CleanupEvents :
      LET h == Route(fsmState[s], ev)
      IN
        \/ go_back(s, ev, h)
        \/ unhandled(s, ev, h)
        \/ operation_start(s, ev, h)
        \/ file_receive(s, ev, h)
        \/ watermark_text_handler(s, ev, h)
        \/ password_job(s, ev, h)
  \/ \E t \in tasks : download_failed(t)
  \/ \E t \in tasks : file_downloaded(t)
  \/ \E t \in tasks : send_doc_ok(t)
  \/ \E t \in tasks : send_doc_failed(t)
  \/ \E t \in tasks : answer_err_done(t)
  \/ \E t \in tasks : \E stuck \in SUBSET (CleanupPaths(t) \cap disk) :
       finally_remove_fails(t, stuck)

SpecCleanup == Init /\ [][NextCleanup]_vars

\* C17: when removals fail in a handler's finally block, every other file of
\* the handler is still deleted and the chat is left Idle.
C17_FailedDeleteIsSwallowed ==
  [][\A t \in tasks : \A stuck \in SUBSET (CleanupPaths(t) \cap disk) :
       finally_remove_fails(t, stuck) =>
         /\ last'.kept = Cardinality(stuck)
         /\ fsmState'[t.sess] = None]_vars

\* ----------------------------------------------------- cleanup, path by path
\* bounds of the cleanup calls: the files that may exist, the longest list
NumReleaseFiles == 2
MaxRelease == 3

\* a path that exists and that os.remove cannot delete (here a directory)
Removable(p) == p.ext # "dir"

ReleasePaths == {Path(1, n, "pdf") : n \in 1..NumReleaseFiles} \cup {Path(1, 1, "dir")}

\* the lists handed to cleanup: paths that exist or not, None, repeats
ReleaseLists == UNION {[1..n -> ReleasePaths \cup {NoPath}] : n \in 0..MaxRelease}

\* os.remove(p): the file is gone, or an exception (FileNotFoundError on a
\* missing path, IsADirectoryError or PermissionError on one it cannot delete)
os_remove(fs, p) ==
  IF p \in fs /\ Removable(p)
    THEN [fs |-> fs \ {p}, exc |-> FALSE]
    ELSE [fs |-> fs, exc |-> TRUE]

\* cleanup without its try: the first exception leaves the loop
RECURSIVE cleanup_no_try(_, _)
cleanup_no_try(fs, paths) ==
  IF paths = <<>> THEN [fs |-> fs, raised |-> FALSE]
  ELSE LET p == Head(paths)
           r == IF p # NoPath /\ p \in fs THEN os_remove(fs, p)
                ELSE [fs |-> fs, exc |-> FALSE]
       IN  IF r.exc THEN [fs |-> r.fs, raised |-> TRUE]
           ELSE cleanup_no_try(r.fs, Tail(paths))

\* cleanup(paths) as written: for each p, "if p and os.path.exists(p):
\* os.remove(p)" inside try / except Exception: pass
RECURSIVE cleanup_loop(_, _)
cleanup_loop(fs, paths) ==
  IF paths = <<>> THEN [fs |-> fs, raised |-> FALSE]
  ELSE LET p == Head(paths)
           r == IF p # NoPath /\ p \in fs THEN os_remove(fs, p)
                ELSE [fs |-> fs, exc |-> FALSE]
       IN  cleanup_loop(r.fs, Tail(paths))

\* any files exist when cleanup is called
InitRelease ==
  /\ fsmState = [s \in Sessions |-> None]
  /\ fsmData = [s \in Sessions |-> EmptyData]
  /\ lists = [i \in ListIds |-> <<>>]
  /\ disk \in SUBSET ReleasePaths
  /\ leaked = [s \in Sessions |-> FALSE]
  /\ tasks = {}
  /\ last = Step(0, "", FALSE, FALSE, <<>>, FALSE, "", 0, FALSE)

\* await cleanup(paths): lists[1] is the list object handed over
cleanup_call(paths) ==
  LET r == cleanup_loop(disk, paths)
  IN  /\ disk' = r.fs
      /\ lists' = [lists EXCEPT ![1] = paths]
      /\ last' = Step(1, "cleanup", TRUE, TRUE, <<>>, r.raised, "",
                      Cardinality(SeqRange(paths) \cap r.fs), FALSE)
      /\ UNCHANGED <<fsmState, fsmData, leaked, tasks>>

NextRelease == \E paths \in ReleaseLists : cleanup_call(paths)

SpecRelease == InitRelease /\ [][NextRelease]_vars

\* C18: cleanup raises nothing; a second cleanup of the same list changes
\* nothing more; a list of only empty or missing paths changes nothing; no
\* unlisted file is touched; afterwards no listed path that can be deleted
\* exists.
C18_CleanupIdempotent ==
  [][last'.h = "cleanup" =>
         LET paths == lists'[1]
             again == cleanup_loop(disk', paths)
         IN  /\ ~last'.raised
             /\ ~again.raised
             /\ again.fs = disk'
             /\ (\A i \in 1..Len(paths) : paths[i] = NoPath \/ paths[i] \notin disk)
                  => disk' = disk
             /\ disk \ SeqRange(paths) \subseteq disk'
             /\ \A p \in SeqRange(paths) : p \in disk' => ~Removable(p)]_vars

\* C18 witness: cleanup has run on a list holding an empty path and a path
\* twice, a listed file that could not be deleted is all that is left of it
C18_CleanupRanOnRepeats ==
  /\ last.h = "cleanup"
  /\ Len(lists[1]) = MaxRelease
  /\ NoPath \in SeqRange(lists[1])
  /\ \E i, j \in 1..Len(lists[1]) : i # j /\ lists[1][i] = lists[1][j] /\ lists[1][i] = Path(1, 1, "dir")
  /\ Path(1, 1, "dir") \in disk
  /\ last.kept = 1
  /\ ~last.raised

\* ------------------------------------------------- a backend that hangs
\* The event loop of SpecLoop with its scheduling made explicit.  Every
\* network await ends, by an answer or by the timeout of the client session,
\* and the loop resumes the handler the next time it runs: strong fairness of
\* resumed, chat by chat (strong, because a backend call of another chat
\* holds the loop for a while).  subprocess.run is called without timeout=
\* (lines 354 and 627), so nothing makes backend_returned happen.  With weak
\* fairness of backend_returned added, C19_BackendJobResolves holds.  A user sends the next document only
\* once the job of the chat has ended.
waiting_job_event(s) ==
  /\ \A t \in tasks : t.sess # s
  /\ job_event(s)

NextHang ==
  \/ \E s \in Sessions : light_event(s)
  \/ \E s \in Sessions : waiting_job_event(s)
  \/ \E t \in tasks : resumed(t)
  \/ \E t \in tasks : backend_returned(t)

SpecHang ==
  /\ Init
  /\ [][NextHang]_vars
  /\ \A s \in Sessions : SF_vars(\E t \in tasks : t.sess = s /\ resumed(t))

\* C19: a job whose backend process has been started eventually resolves and
\* its chat returns to Idle, whether or not the process ever returns.
C19_BackendJobResolves ==
  \A s \in Sessions :
    (\E t \in tasks : t.sess = s /\ t.pc = "backend")
      ~> (fsmState[s] = None /\ \A t \in tasks : t.sess # s)

\* ------------------------------------------------- page lists of split_do
\* some part of the text is neither an integer nor a range of integers
Malformed(ev) == \E i \in DOMAIN PartsOf(ev) : PartsOf(ev)[i].kind = "bad"

\* split_do starts the split of the stored file
split_runs(s, ev) ==
  /\ split_do(s, ev, "split_do")
  /\ \E t \in tasks' : t.h = "split_do" /\ t.sess = s /\ t.path = fsmData[s].file_path

\* C20: a malformed page list typed in split_pages while the stored file
\* exists is answered with the format message and changes nothing: the chat
\* stays in split_pages and keeps its file; and after such an answer a
\* well-formed page list starts the split of that file.
C20_MalformedPagesCanBeRetried ==
  /\ [][\A s \in Sessions, ev \in Events :
          ( /\ fsmState[s] = "split_pages"
            /\ fsmData[s].file_path \in disk
            /\ ev.kind = "text"
            /\ Route("split_pages", ev) = "split_do"
            /\ Malformed(ev)
            /\ Handle(s, ev) )
          => /\ last'.msgs = <<Msg("message", "rejected", 0)>>
             /\ ~last'.raised
             /\ fsmState'[s] = "split_pages"
             /\ fsmData'[s] = fsmData[s]
             /\ disk' = disk
             /\ tasks' = tasks]_vars
  /\ [](\A s \in Sessions :
          ( /\ last.h = "split_do"
            /\ last.sess = s
            /\ last.msgs = <<Msg("message", "rejected", 0)>>
            /\ tasks = {} )
          => \A pl \in PageLists :
               WellFormed(pl) => ENABLED split_runs(s, TextEvent(TextPages, pl)))

\* C20 witness: split_do has just answered a malformed page list; the chat is
\* in split_pages and its stored file exists
C20_PageListRejected ==
  /\ last.h = "split_do"
  /\ last.exit
  /\ last.msgs = <<Msg("message", "rejected", 0)>>
  /\ fsmState[1] = "split_pages"
  /\ fsmData[1].file_path \in disk
  /\ tasks = {}

\* ------------------------------------------------------- a chat that goes quiet
\* a suspended handler of the conversations of SpecParam goes on
task_step(t) ==
  \/ download_failed(t)
  \/ file_downloaded(t)
  \/ send_doc_ok(t)
  \/ send_doc_failed(t)
  \/ answer_err_done(t)

\* SpecParam with the scheduling of the event loop: every network await ends
\* and its handler is resumed.  Nothing makes a user send a message, and the
\* source starts no timer and no background task: MemoryStorage (line 34)
\* keeps a state until a handler clears it.
SpecQuiet ==
  /\ Init
  /\ [][NextParam]_vars
  /\ WF_vars(\E t \in tasks : task_step(t))

\* a handler of chat s starts in this step: an update of the chat is handled
EventOf(s) == last'.start /\ last'.sess = s

\* C21: a chat whose user sends nothing more is reset in the end: from some
\* point on it is Idle and holds no file.
C21_QuietChatIsReset ==
  \A s \in Sessions :
    <>[][~EventOf(s)]_vars
      => <>[](fsmState[s] = None /\ DataPaths(fsmData, lists, s) = {})

\* ------------------------------------------------- a file arrives
\* one chat sending a PDF to an operation that asks for a text afterwards
\* (split, unlock) and to one that runs at once (page numbers)
ReceiveEvents ==
  Texts({TextBack, "Razdelit PDF", "Otkryt PDF", "Nomera stranic v PDF", ModeSingle,
         TextFree})
    \cup {DocumentEvent("pdf")}

NextReceive ==
  \/ \E s \in OneChat, ev \in ReceiveEvents :
      LET h == Route(fsmState[s], ev)
      IN
        \/ go_back(s, ev, h)
        \/ unhandled(s, ev, h)
        \/ operation_start(s, ev, h)
        \/ file_receive(s, ev, h)
        \/ job_receive(s, ev, h)
        \/ split_mode_choice(s, ev, h)
        \/ split_do(s, ev, h)
        \/ password_job(s, ev, h)
  \/ \E t \in tasks : download_failed(t)
  \/ \E t \in tasks : file_downloaded(t)
  \/ \E t \in tasks : job_downloaded(t)
  \/ \E t \in tasks : send_doc_ok(t)
  \/ \E t \in tasks : send_doc_failed(t)
  \/ \E t \in tasks : answer_err_done(t)

SpecReceive == Init /\ [][NextReceive]_vars

\* the handlers that take the text awaited for a stored file and run its job
ParamJobHandlers ==
  {"split_do", "watermark_text_handler", "unlock_password", "protect_password"}

\* the handlers that this step starts (the reset mark of go_back and cmd_start
\* on a running handler starts nothing)
Started == {t \in tasks' : \A u \in tasks : [u EXCEPT !.reset = t.reset] # t}

\* C22: a file received for split, watermark, unlock or protect is stored as
\* the one new file of the chat, the chat awaits the parameter, and no job
\* starts and no document is sent before an update reaches the parameter
\* handler; a file received by a job handler is stored and its job runs in
\* the same step, and when that handler ends the chat is Idle.
C22_FileStoredThenParameterOrJob ==
  [][/\ \A t \in tasks :
          file_downloaded(t) =>
            /\ disk' \ disk = {t.path}
            /\ fsmData'[t.sess][ReceiveKey[t.h]] = t.path
            /\ fsmState'[t.sess] \in ParamStates
            /\ tasks' = tasks \ {t}
            /\ \A i \in DOMAIN last'.msgs : last'.msgs[i].kind # "document"
     /\ \A t \in Started :
          (t.h \in ParamJobHandlers /\ t.pc # "notfound" /\ last'.start) =>
            /\ last'.h = t.h
            /\ fsmState[t.sess] \in ParamStates
     /\ \A t \in tasks :
          job_downloaded(t) =>
            /\ t.path \in disk' \ disk
            /\ \E u \in tasks' \ tasks :
                 /\ u.sess = t.sess /\ u.h = t.h /\ u.path = t.path
                 /\ u.pc \in {"send_doc", "send_page", "answer", "answer_err"}
     /\ ( /\ last'.h \in JobHandlers
          /\ last'.exit
          /\ ~last'.start
          /\ last'.fault # "download" )
          => fsmState'[last'.sess] = None]_vars

\* C22 witness: unlock_receive has stored the PDF and the chat awaits the
\* password, no handler running
C22_FileStoredAwaitingPassword ==
  /\ last.h = "unlock_receive"
  /\ last.exit
  /\ fsmState[1] = "unlock_password"
  /\ fsmData[1].unlock_file \in disk
  /\ tasks = {}

\* C23: a merge_collect handler whose download completes, in a chat that is
\* still in the merge state with the list the handler read, appends exactly
\* its own new path to that list and leaves the chat in the merge state,
\* whatever other handlers of the chat did meanwhile; and merge_finish works
\* on the stored list as it is.
C23_MergeAppendsEveryFile ==
  [][/\ \A t \in tasks :
          ( /\ merge_collect_downloaded(t)
            /\ fsmState[t.sess] = "merge"
            /\ fsmData[t.sess].files = t.files )
          => /\ t.path \notin SeqRange(lists[t.files])
             /\ lists'[t.files] = Append(lists[t.files], t.path)
             /\ fsmData'[t.sess].files = t.files
             /\ fsmState'[t.sess] = "merge"
             /\ t.path \in disk'
     /\ \A t \in Started :
          (t.h = "merge_finish" /\ last'.start) =>
            /\ fsmData[t.sess].files # NoList
            /\ t.files = fsmData[t.sess].files
            /\ lists'[t.files] = lists[t.files]]_vars

\* C23 witness: of two merge_collect handlers downloading at once for the same
\* list, one has just appended its path and the other is still downloading
C23_CollectorsInterleaved ==
  /\ last.h = "merge_collect"
  /\ last.exit
  /\ ~last.raised
  /\ fsmState[1] = "merge"
  /\ fsmData[1].files # NoList
  /\ Len(lists[fsmData[1].files]) = 1
  /\ \E t \in tasks :
       t.h = "merge_collect" /\ t.pc = "download" /\ t.files = fsmData[1].files

\* the handlers that select an operation
SelectHandlers == DOMAIN StartState \cup {"merge_start"}

\* C24: when an operation is selected in a chat that is not Idle and holds
\* files, either nothing changes, or none of the held files is left on disk
\* once the new state is entered.
C24_SelectionOrphansNoFile ==
  [][\A s \in Sessions :
       ( /\ last'.start /\ last'.sess = s /\ last'.h \in SelectHandlers
         /\ fsmState[s] # None
         /\ DataPaths(fsmData, lists, s) \cap disk # {} )
       => \/ /\ fsmState'[s] = fsmState[s]
             /\ fsmData'[s] = fsmData[s]
             /\ lists' = lists
             /\ disk' = disk
             /\ leaked' = leaked
          \/ /\ DataPaths(fsmData, lists, s) \cap disk' = {}
             /\ leaked'[s] => leaked[s]]_vars

\* the state filter handler h is registered with
OwnState(h) == Handlers[CHOOSE i \in DOMAIN Handlers : Handlers[i].name = h].state

\* C25: a job handler that was suspended when its chat was reset, and that
\* ends after the chat has selected a different operation, leaves the state
\* and the data of that operation as they are.
C25_LateJobKeepsNewOperation ==
  [][\A s \in Sessions :
       ( /\ last'.late /\ last'.exit /\ last'.sess = s
         /\ last'.h \in JobHandlers
         /\ fsmState[s] \notin {None, OwnState(last'.h)} )
       => /\ fsmState'[s] = fsmState[s]
          /\ fsmData'[s] = fsmData[s]]_vars

\* C26: a handler in which the sending of a result raised leaves none of its
\* files when it ends, the page files included.
C26_SendFailureCleansUp ==
  (last.exit /\ ~last.start /\ last.fault = "send") => last.kept = 0

\* C27: the output path of a running job is never the path of its input.
C27_OutputPathIsNotInput ==
  \A t \in tasks : (t.h \in JobHandlers /\ t.out # NoPath) => t.out # t.path

\* ------------------------------------------------- the pages split_do selects
\* bound of the page lists typed: the number of parts
MaxParts == 2

\* the numbers typed: from 0 to one past the longest document
PageNumbers == 0..(MaxPages + 1)

PageParts ==
  {PagePart("single", n, 0) : n \in PageNumbers}
    \cup {PagePart("range", a, b) : a \in PageNumbers, b \in PageNumbers}

\* the well-formed page lists of at most MaxParts parts
PageEvents ==
  {TextEvent(TextPages, pl) : pl \in UNION {[1..n -> PageParts] : n \in 1..MaxParts}}

\* a chat in split_pages: split_receive has stored the PDF and
\* split_mode_choice the mode, one file per page
InitPages ==
  /\ fsmState = [s \in Sessions |-> IF s = 1 THEN "split_pages" ELSE None]
  /\ fsmData = [s \in Sessions |->
                  IF s = 1
                    THEN [EmptyData EXCEPT !.file_path = Path(1, 1, "pdf"),
                                           !.split_mode = ModeSeparate]
                    ELSE EmptyData]
  /\ lists = [i \in ListIds |-> <<>>]
  /\ disk = {Path(1, 1, "pdf")}
  /\ leaked = [s \in Sessions |-> FALSE]
  /\ tasks = {}
  /\ last = Step(1, "split_mode_choice", TRUE, TRUE, <<Msg("message", "prompt", 0)>>,
                 FALSE, "", 0, FALSE)

\* the user types one page list and waits for the pages
typed_pages(ev) ==
  /\ tasks = {}
  /\ split_do(1, ev, FirstMatch(fsmState[1], ev))

\* ... or leaves with the back button or /start while they are sent
leaves(ev) ==
  LET h == Route(fsmState[1], ev)
  IN  go_back(1, ev, h) \/ cmd_start(1, ev, h)

NextPages ==
  \/ \E ev \in PageEvents : typed_pages(ev)
  \/ \E ev \in Texts({TextBack, TextStart}) : leaves(ev)
  \/ \E t \in tasks : page_sent(t)
  \/ \E t \in tasks : page_failed(t)
  \/ \E t \in tasks : answer_done(t)
  \/ \E t \in tasks : answer_err_done(t)

SpecPages == InitPages /\ [][NextPages]_vars

\* the pages one part stands for in a document of total pages, 1-based
PartPages(part, total) ==
  IF part.kind = "single"
    THEN (IF part.a \in 1..total THEN <<part.a>> ELSE <<>>)
    ELSE LET lo == IF part.a < 1 THEN 1 ELSE part.a
             hi == IF part.b > total THEN total ELSE part.b
         IN  [i \in 1..(IF hi >= lo THEN hi - lo + 1 ELSE 0) |-> lo + i - 1]

\* the pages a list stands for: its parts in the order written
RECURSIVE ListPages(_, _)
ListPages(parts, total) ==
  IF parts = <<>> THEN <<>>
  ELSE PartPages(Head(parts), total) \o ListPages(Tail(parts), total)

\* C28: for a well-formed page list, split_do selects page n for a number n
\* and pages a..b for a range a-b, in the order written, duplicates kept,
\* pages outside 1..total left out; in separate-files mode the handler sends
\* these pages one document each, in that order.
C28_SelectedPagesInOrder ==
  [][/\ \A ev \in PageEvents :
          (last'.start /\ last'.h = "split_do" /\ typed_pages(ev)) =>
            /\ \A total \in 1..MaxPages :
                 LET sel == InRange(ParsePages(ev.parts), total)
                 IN  [i \in DOMAIN sel |-> sel[i] + 1] = ListPages(ev.parts, total)
            /\ \A t \in Started :
                 /\ t.pc = "send_page" =>
                      /\ t.todo # <<>>
                      /\ \E total \in 1..MaxPages : t.todo = ListPages(ev.parts, total)
                 /\ t.pc = "answer" =>
                      \E total \in 1..MaxPages : ListPages(ev.parts, total) = <<>>
     /\ \A t \in tasks :
          page_sent(t) =>
            /\ last'.msgs = <<Msg("document", "page", Head(t.todo))>>
            /\ \A u \in Started :
                 /\ u.pc = "send_page" => u.todo = Tail(t.todo)
                 /\ u.pc = "answer" => Len(t.todo) = 1]_vars

\* C28 witness: of the pages 1, 2, 2 selected by a list with a repeated page,
\* page 1 has just been sent and 2, 2 are still to send
C28_RepeatedPageToSend ==
  /\ last.h = "split_do"
  /\ last.msgs = <<Msg("document", "page", 1)>>
  /\ \E t \in tasks : t.h = "split_do" /\ t.pc = "send_page" /\ t.todo = <<2, 2>>

====
